---------------------------- MODULE Spec2Model ----------------------------
(***************************************************************************)
(* A model of the review scraper: the three site adapters (G2, Capterra,   *)
(* Software Advice), their company search with retries, their pagination   *)
(* loop with the date window filter, the per-fragment extraction of the    *)
(* fields of a review, the aggregator scrape_reviews that runs the         *)
(* adapters one after another, and main with its input validation, its     *)
(* demo mode and its output file.                                          *)
(*                                                                         *)
(* The web sites are the environment: every response to an HTTP request is *)
(* chosen nondeterministically from a bounded pool when the request is     *)
(* made.  The last response is kept in the history variable resp so that   *)
(* properties can relate what a step did to what the site served.          *)
(***************************************************************************)
EXTENDS Integers, Sequences, FiniteSets, TLC

VARIABLES
    company_name,   \* input: the company searched for (a string, as characters)
    start_date,     \* input: startDate, a date string
    end_date,       \* input: endDate, a date string
    source,         \* input: the source selector
    now,            \* the current date (datetime.now(), day precision)
    pc,             \* "loop": scrape_reviews is between two adapters;
                    \* "search": the adapter is about to issue a search request;
                    \* "found": search_company has returned a URL to get_reviews;
                    \* "pages": the adapter is about to fetch review page `page`;
                    \* "done": scrape_reviews has returned
    idx,            \* scrape_reviews: position of the for loop in sources_to_scrape
    agg_reviews,    \* scrape_reviews: its local all_reviews (the final result)
    attempt,        \* search_company: the retry loop variable
    product_url,    \* get_reviews: the URL search_company returned (<<>> is None)
    page,           \* get_reviews: the page counter
    all_reviews,    \* get_reviews: the accumulated reviews of the running adapter
    status,         \* how the last get_reviews call ended: "none", "running",
                    \* "returned" or "raised"
    ran,            \* history: the adapters run so far with their outcome
    resp,           \* history: the last HTTP response served
    n_search,       \* history: search requests issued by the running adapter
    n_page,         \* history: review page requests issued by the running adapter
    listing,        \* environment: the review listing of the site, as a sequence
                    \* of pages, when it is fixed in advance; <<>> when every
                    \* response is chosen as the request is made
    p_adapter,      \* parse_review check: the adapter applied
    p_frag,         \* parse_review check: the fragment it is applied to
    parsed,         \* parse_review check: what parse_review returned
    wait,           \* history: the seconds slept (time.sleep) since the last
                    \* HTTP request was issued; 0 before the first request
    demo,           \* main: the --demo flag
    verdict,        \* validate_inputs: "none" before the call, "ok" when it
                    \* returned, else the check that raised ValueError
    outcome,        \* main: how the run ended; "none" while it is running
    artifact,       \* main: the output files written, each the list of reviews
                    \* dumped into it
    d_string,       \* date check: the string given to validate_date_format
    d_result        \* date check: <<>> before the call; then <<r>>, r holding
                    \* what validate_date_format returned and what parse_date gave

vars == <<company_name, start_date, end_date, source, now, pc, idx, agg_reviews,
          attempt, product_url, page, all_reviews, status, ran, resp,
          n_search, n_page, listing, p_adapter, p_frag, parsed, wait, demo,
          verdict, outcome, artifact, d_string, d_result>>

(***************************************************************************)
(* Bounds of the model and constants of the program.                       *)
(***************************************************************************)
MaxPages == 2
MaxFrags == 2
MaxCands == 2

MAX_RETRIES == 3

DELAY_BETWEEN_REQUESTS == 2

\* config.py; no adapter and no other module reads it
MAX_REVIEWS_PER_SOURCE == 1000

SOURCES == <<"g2", "capterra", "software-advice", "all">>

Adapters == {"g2", "capterra", "software-advice"}

SourceLabel(a) ==
    CASE a = "g2" -> "G2"
      [] a = "capterra" -> "Capterra"
      [] OTHER -> "Software Advice"

BaseUrl(a) ==
    CASE a = "g2" -> "https://www.g2.com"
      [] a = "capterra" -> "https://www.capterra.com"
      [] OTHER -> "https://www.softwareadvice.com"

Range(s) == {s[i] : i \in DOMAIN s}

SeqsUpTo(S, n) == UNION {[1..k -> S] : k \in 0..n}

(***************************************************************************)
(* Calendar dates.  A datetime at day precision is a triple <<y, m, d>>.   *)
(***************************************************************************)
IsLeap(y) == (y % 4 = 0 /\ y % 100 # 0) \/ y % 400 = 0

DaysInMonth(y, m) ==
    CASE m \in {4, 6, 9, 11} -> 30
      [] m = 2 -> IF IsLeap(y) THEN 29 ELSE 28
      [] OTHER -> 31

ValidYMD(y, m, d) ==
    /\ y \in 1..9999
    /\ m \in 1..12
    /\ d \in 1..DaysInMonth(y, m)

\* datetime comparison: a < b
DateLT(a, b) ==
    \/ a[1] < b[1]
    \/ a[1] = b[1] /\ a[2] < b[2]
    \/ a[1] = b[1] /\ a[2] = b[2] /\ a[3] < b[3]

\* datetime comparison: a <= b
DateLE(a, b) == a = b \/ DateLT(a, b)

Min(a, b) == IF a <= b THEN a ELSE b

(***************************************************************************)
(* Strings that may hold a date.  A string is modelled by its form and the *)
(* numbers written in it:                                                  *)
(*   "iso"   YYYY-MM-DD                "isoT"  YYYY-MM-DDTHH:MM:SS         *)
(*   "isoS"  Y-M-D, month or day written without its leading zero          *)
(*   "dmy"   DD-MM-YYYY                "mdy"   Mon DD, YYYY                *)
(*   "ago"   <n> <unit> ago            "agoX"  holds "ago", not the pattern*)
(*   "junk"  any other text            "none"  no string (no element)      *)
(***************************************************************************)
Text(f, y, m, d, n, u) ==
    [form |-> f, y |-> y, m |-> m, d |-> d, n |-> n, unit |-> u]

Iso(y, m, d) == Text("iso", y, m, d, 0, "")
IsoT(y, m, d) == Text("isoT", y, m, d, 0, "")
IsoS(y, m, d) == Text("isoS", y, m, d, 0, "")
Dmy(y, m, d) == Text("dmy", y, m, d, 0, "")
Mdy(y, m, d) == Text("mdy", y, m, d, 0, "")
Ago(n, u) == Text("ago", 0, 0, 0, n, u)
AgoX == Text("agoX", 0, 0, 0, 0, "")
Junk == Text("junk", 0, 0, 0, 0, "")
NoText == Text("none", 0, 0, 0, 0, "")

\* s[:10]: the first ten characters of a string
Truncate10(s) ==
    CASE s.form \in {"iso", "isoT"} -> Iso(s.y, s.m, s.d)
      [] s.form \in {"dmy", "isoS"} -> s
      [] OTHER -> Junk

\* datetime.strptime(s, '%Y-%m-%d') does not raise ValueError: %m and %d
\* match one or two digits, so the leading zeros may be missing
validate_date_format(s) == s.form \in {"iso", "isoS"} /\ ValidYMD(s.y, s.m, s.d)

\* datetime.strptime(s, '%Y-%m-%d'), defined when validate_date_format(s)
parse_date(s) == <<s.y, s.m, s.d>>

\* dt.strftime('%Y-%m-%d')
strftime(dt) == Iso(dt[1], dt[2], dt[3])

\* datetime.strptime(s, '%b %d, %Y') does not raise
CanParseMdy(s) == s.form = "mdy" /\ ValidYMD(s.y, s.m, s.d)


(***************************************************************************)
(* dateutil's relativedelta, as far as parse_review uses it.               *)
(***************************************************************************)
\* dt - relativedelta(months=n): the day is clipped to the month's length
SubMonths(dt, n) ==
    LET total == dt[1] * 12 + (dt[2] - 1) - n
        y2 == total \div 12
        m2 == (total % 12) + 1
    IN  <<y2, m2, Min(dt[3], DaysInMonth(y2, m2))>>

\* dt - relativedelta(years=n): Feb 29 is clipped to Feb 28
SubYears(dt, n) ==
    <<dt[1] - n, dt[2], Min(dt[3], DaysInMonth(dt[1] - n, dt[2]))>>

PrevDay(dt) ==
    IF dt[3] > 1 THEN <<dt[1], dt[2], dt[3] - 1>>
    ELSE IF dt[2] > 1 THEN <<dt[1], dt[2] - 1, DaysInMonth(dt[1], dt[2] - 1)>>
    ELSE <<dt[1] - 1, 12, 31>>

RECURSIVE SubDays(_, _)
\* dt - relativedelta(days=n): back inside the month, or to the last day of the
\* month before and on from there
SubDays(dt, n) ==
    IF n < dt[3] THEN <<dt[1], dt[2], dt[3] - n>>
    ELSE SubDays(PrevDay(<<dt[1], dt[2], 1>>), n - dt[3])

\* Python's "stem in unit" on the unit words the model draws from: the word
\* the pattern (\d+)\s+(\w+)\s+ago captures, in lower case
InUnit(stem, unit) ==
    CASE stem = "month" -> unit \in {"month", "months"}
      [] stem = "year" -> unit \in {"year", "years"}
      [] stem = "day" -> unit \in {"day", "days", "weekdays", "mondays"}
      [] stem = "week" -> unit \in {"week", "weeks", "weekdays"}
      [] OTHER -> FALSE

\* the date of "<n> <unit> ago": the if/elif chain on the unit
RelativeDate(today, n, unit) ==
    IF InUnit("month", unit) THEN SubMonths(today, n)
    ELSE IF InUnit("year", unit) THEN SubYears(today, n)
    ELSE IF InUnit("day", unit) THEN SubDays(today, n)
    ELSE IF InUnit("week", unit) THEN SubDays(today, 7 * n)
    ELSE today

(***************************************************************************)
(* A review fragment (one review's markup sub-tree), as parse_review reads  *)
(* it:                                                                     *)
(*   raises  a lookup in the fragment raises an unexpected exception       *)
(*   time    the datetime attribute of its <time> element (NoText: no      *)
(*           <time> element, or no such attribute)                         *)
(*   els     the text of its date elements, by markup shape (NoText: the   *)
(*           fragment has no element of that shape)                        *)
(*   fields  the text of its title, description, reviewer and helpful-     *)
(*           votes elements, a function from the shapes present in the     *)
(*           fragment to their text; a text is a sequence of words, the    *)
(*           blank " " being one of them                                   *)
(*   rating  its rating element (NoRating: none): the number of filled-    *)
(*           star sub-elements, its text (does it hold a "/", and the      *)
(*           number before it, -1 when float() rejects it) and the N of a  *)
(*           "stars-N" class (-1: no such class)                           *)
(***************************************************************************)
DateShapes ==
    {"div.review__date", "span.ReviewCard__Date", "div.review-date",
     "span.review-date"}

\* the ordered date shapes an adapter looks up when there is no timestamp
DateCascade(a) ==
    CASE a = "g2" -> <<"div.review__date">>
      [] a = "capterra" -> <<"span.ReviewCard__Date", "div.review-date">>
      [] OTHER -> <<"span.ReviewCard__Date", "div.review-date", "span.review-date">>

NoEls == [sh \in DateShapes |-> NoText]

\* no title, description, reviewer or helpful-votes element
NoFields == [sh \in {} |-> <<>>]

NoRating == [stars |-> -1, slash |-> FALSE, num |-> -1, cls |-> -1]

RatingEl(stars, slash, num, cls) ==
    [stars |-> stars, slash |-> slash, num |-> num, cls |-> cls]

\* a fragment with date markup only
Frag(raises, time, els) ==
    [raises |-> raises, time |-> time, els |-> els, fields |-> NoFields,
     rating |-> NoRating]

\* a fragment with the given field elements and rating element, and no date
FieldFrag(fields, rating) ==
    [raises |-> FALSE, time |-> NoText, els |-> NoEls, fields |-> fields,
     rating |-> rating]

Fields == {"title", "description", "reviewer_name", "helpful_votes"}

\* the ordered shapes an adapter looks a field up under
FieldCascade(a, field) ==
    CASE field = "title" ->
            (CASE a = "g2" -> <<"h3.review__title">>
               [] a = "capterra" -> <<"h3.ReviewCard__Title", "h4.review-title">>
               [] OTHER -> <<"h3.ReviewCard__Title", "h4.review-title",
                             "div.review-title">>)
      [] field = "description" ->
            (CASE a = "g2" -> <<"div.review__content">>
               [] a = "capterra" -> <<"div.ReviewCard__Description",
                                      "div.review-content", "p.review-text">>
               [] OTHER -> <<"div.ReviewCard__Description", "div.review-content",
                             "p.review-text", "div.review-body">>)
      [] field = "reviewer_name" ->
            (CASE a = "g2" -> <<"div.reviewer__name">>
               [] a = "capterra" -> <<"span.ReviewCard__ReviewerName",
                                      "div.reviewer-name", "span.reviewer__name">>
               [] OTHER -> <<"span.ReviewCard__ReviewerName", "div.reviewer-name",
                             "span.reviewer-name", "div.user-name">>)
      [] OTHER ->
            (CASE a = "g2" -> <<"span.review__helpful-count">>
               [] a = "capterra" -> <<"span.ReviewCard__HelpfulCount",
                                      "span.helpful-count">>
               [] OTHER -> <<"span.ReviewCard__HelpfulCount", "span.helpful-count",
                             "div.helpful-votes">>)

\* mutant: every field falls back to the empty string
Sentinel_Empty(field) == <<>>

\* the value a field takes when no element is found
Sentinel(field) ==
    CASE field = "title" -> <<"No Title">>
      [] field = "description" -> <<>>
      [] field = "reviewer_name" -> <<"Anonymous">>
      [] OTHER -> <<"0">>

RECURSIVE TextLStrip(_)
TextLStrip(t) == IF t # <<>> /\ Head(t) = " " THEN TextLStrip(Tail(t)) ELSE t

RECURSIVE TextRStrip(_)
TextRStrip(t) ==
    IF t # <<>> /\ t[Len(t)] = " " THEN TextRStrip(SubSeq(t, 1, Len(t) - 1)) ELSE t

\* element.text.strip()
TextStrip(t) == TextRStrip(TextLStrip(t))

RECURSIVE FirstPresent(_, _, _)
\* the chain "el = find(shape1); if not el: el = find(shape2); ...": the index
\* in the cascade of the first shape the fragment has an element of (an element
\* is truthy whatever its text), 0 when it has none
FirstPresent(frag, cascade, i) ==
    IF i > Len(cascade) THEN 0
    ELSE IF cascade[i] \in DOMAIN frag.fields THEN i
    ELSE FirstPresent(frag, cascade, i + 1)

\* "x = el.text.strip() if el else <sentinel>"
ExtractField(a, field, frag) ==
    LET i == FirstPresent(frag, FieldCascade(a, field), 1)
    IN  IF i # 0 THEN TextStrip(frag.fields[FieldCascade(a, field)[i]])
        ELSE Sentinel(field)

\* the 'rating' field parse_review computes
ExtractRating(a, frag) ==
    IF frag.rating = NoRating THEN 0
    ELSE IF a = "g2" THEN frag.rating.stars
    ELSE IF frag.rating.stars > 0 THEN frag.rating.stars
    ELSE IF frag.rating.slash
    THEN IF frag.rating.num >= 0 THEN frag.rating.num ELSE 0
    ELSE IF a = "software-advice" /\ frag.rating.cls >= 0 THEN frag.rating.cls
    ELSE 0

RECURSIVE FirstFound(_, _, _)
\* the chain "el = find(shape1); if not el: el = find(shape2); ...": the text of
\* the first element found, NoText when no shape is found
FirstFound(frag, cascade, i) ==
    IF i > Len(cascade) THEN NoText
    ELSE IF frag.els[cascade[i]] # NoText THEN frag.els[cascade[i]]
    ELSE FirstFound(frag, cascade, i + 1)

\* the free-text date handling of the Capterra and Software Advice adapters
FreeTextDate(date_text, today) ==
    IF date_text.form \in {"ago", "agoX"}
    THEN IF date_text.form = "ago"
         THEN LET review_date == RelativeDate(today, date_text.n, date_text.unit)
              IN  IF review_date[1] >= 1 THEN strftime(review_date)
                  ELSE strftime(today)
         ELSE strftime(today)
    ELSE IF CanParseMdy(date_text)
         THEN strftime(<<date_text.y, date_text.m, date_text.d>>)
         ELSE strftime(today)

\* the 'date' field parse_review computes
ExtractDate(a, frag, today) ==
    IF frag.time # NoText
    THEN Truncate10(frag.time)
    ELSE LET date_text == FirstFound(frag, DateCascade(a), 1)
         IN  IF a = "g2"
             THEN IF date_text # NoText THEN date_text ELSE strftime(today)
             ELSE IF date_text # NoText THEN FreeTextDate(date_text, today)
                  ELSE strftime(today)

\* parse_review: <<>> is None (the record is dropped), <<r>> the record r
parse_review(a, frag, today) ==
    IF frag.raises THEN <<>>
    ELSE <<[title |-> ExtractField(a, "title", frag),
            description |-> ExtractField(a, "description", frag),
            date |-> ExtractDate(a, frag, today),
            reviewer_name |-> ExtractField(a, "reviewer_name", frag),
            rating |-> ExtractRating(a, frag),
            helpful_votes |-> ExtractField(a, "helpful_votes", frag),
            source |-> SourceLabel(a)]>>

\* the record of a fragment with date markup only
Plain(label, date) ==
    [title |-> Sentinel("title"), description |-> Sentinel("description"),
     date |-> date, reviewer_name |-> Sentinel("reviewer_name"), rating |-> 0,
     helpful_votes |-> Sentinel("helpful_votes"), source |-> label]

(***************************************************************************)
(* Company search.  A display text is a sequence of characters; a search   *)
(* results page lists candidates under two markup shapes: named links, and *)
(* cards that may contain a named link.                                    *)
(***************************************************************************)
\* str.lower() on one character
LowerChar(c) ==
    CASE c = "A" -> "a"
      [] c = "B" -> "b"
      [] c = "X" -> "x"
      [] OTHER -> c

\* str.lower()
Lower(s) == [i \in DOMAIN s |-> LowerChar(s[i])]

\* Python's "a in b" on strings: a is a substring of b
IsSubstring(a, b) ==
    \E k \in 0..(Len(b) - Len(a)) : \A i \in 1..Len(a) : b[k + i] = a[i]

\* company_name.lower() in link.text.lower()
Matches(name, text) == IsSubstring(Lower(name), Lower(text))

\* a link element: its display text and its href attribute (<<>>: no href;
\* <<path>>: a relative reference; <<host, path>>: an absolute URL)
Link(text, href) == [text |-> text, href |-> href]

\* a product card that contains no named link: card.find(...) is None
NoLink == Link(<<>>, <<"-">>)

\* urljoin(base, href)
urljoin(base, href) == IF Len(href) = 2 THEN href ELSE <<base, href[1]>>

RECURSIVE FirstMatch(_, _, _)
\* the index of the first candidate link whose text matches, 0 when none does
FirstMatch(name, cands, i) ==
    IF i > Len(cands) THEN 0
    ELSE IF cands[i] # NoLink /\ Matches(name, cands[i].text) THEN i
    ELSE FirstMatch(name, cands, i + 1)

\* the candidate the two "for ... if ... return" loops of search_company stop
\* at: the first matching named link, else the first matching card link;
\* NoLink when neither loop finds a match
FoundLink(name, links, cards) ==
    LET i == FirstMatch(name, links, 1)
        j == FirstMatch(name, cards, 1)
    IN  IF i # 0 THEN links[i]
        ELSE IF j # 0 THEN cards[j]
        ELSE NoLink

(***************************************************************************)
(* Pagination: the date window filter over the fragments of one page and   *)
(* the next-page indicator.                                                *)
(***************************************************************************)
\* mutant: the upper bound of the window is not checked
InWindow_NoUpper(d, start_dt, end_dt) == DateLE(start_dt, d)

\* start_datetime <= review_date <= end_datetime
InWindow(d, start_dt, end_dt) == DateLE(start_dt, d) /\ DateLE(d, end_dt)

\* elif review_date < start_datetime
TooOld(d, start_dt) == DateLT(d, start_dt)

\* mutant: a review older than startDate is passed over, the loop goes on
Decide_OldSkips(review_data, start_dt, end_dt) ==
    IF review_data = <<>> THEN "drop"
    ELSE IF ~validate_date_format(review_data[1].date) THEN "error"
    ELSE IF InWindow(parse_date(review_data[1].date), start_dt, end_dt) THEN "keep"
    ELSE "skip"

\* mutant: a fragment parse_review returns None for ends the loop
Decide_NoneStops(review_data, start_dt, end_dt) ==
    IF review_data = <<>> THEN "error"
    ELSE IF ~validate_date_format(review_data[1].date) THEN "error"
    ELSE IF InWindow(parse_date(review_data[1].date), start_dt, end_dt) THEN "keep"
    ELSE IF TooOld(parse_date(review_data[1].date), start_dt) THEN "old"
    ELSE "skip"

\* mutant: a review after endDate ends the loop as one before startDate does
Decide_LateStops(review_data, start_dt, end_dt) ==
    IF review_data = <<>> THEN "drop"
    ELSE IF ~validate_date_format(review_data[1].date) THEN "error"
    ELSE IF InWindow(parse_date(review_data[1].date), start_dt, end_dt) THEN "keep"
    ELSE "old"

\* what the body of the loop over the fragments does with the value
\* parse_review returned:
\*   "drop"   review_data is None: nothing is done
\*   "error"  parse_date raises ValueError on review_data['date']
\*   "keep"   the date is in the window: the review is appended
\*   "old"    the date is before startDate: return all_reviews
\*   "skip"   neither: the review is passed over
Decide(review_data, start_dt, end_dt) ==
    IF review_data = <<>> THEN "drop"
    ELSE IF ~validate_date_format(review_data[1].date) THEN "error"
    ELSE IF InWindow(parse_date(review_data[1].date), start_dt, end_dt) THEN "keep"
    ELSE IF TooOld(parse_date(review_data[1].date), start_dt) THEN "old"
    ELSE "skip"

RECURSIVE ProcessFragments(_, _, _, _, _, _, _)
\* mutant: a kept review is put in front of those accumulated so far
ProcessFragments_Prepends(a, frags, i, acc, start_dt, end_dt, today) ==
    IF i > Len(frags) THEN [reviews |-> acc, stop |-> "none", at |-> 0]
    ELSE LET review_data == parse_review(a, frags[i], today)
             what == Decide(review_data, start_dt, end_dt)
         IN  CASE what \in {"old", "error"} ->
                    [reviews |-> acc, stop |-> what, at |-> i]
               [] what = "keep" ->
                    ProcessFragments(a, frags, i + 1, <<review_data[1]>> \o acc,
                                     start_dt, end_dt, today)
               [] OTHER ->
                    ProcessFragments(a, frags, i + 1, acc, start_dt, end_dt, today)

\* the loop "for review_element in review_elements" of get_reviews from
\* fragment i on, acc being all_reviews.  The result tells how the loop ended:
\*   stop = "none"   every fragment was processed
\*   stop = "old"    fragment `at` is older than startDate: return all_reviews
\*   stop = "error"  parse_date raised ValueError on the date of fragment `at`
ProcessFragments(a, frags, i, acc, start_dt, end_dt, today) ==
    IF i > Len(frags) THEN [reviews |-> acc, stop |-> "none", at |-> 0]
    ELSE LET review_data == parse_review(a, frags[i], today)
             what == Decide(review_data, start_dt, end_dt)
         IN  CASE what \in {"old", "error"} ->
                    [reviews |-> acc, stop |-> what, at |-> i]
               [] what = "keep" ->
                    ProcessFragments(a, frags, i + 1, Append(acc, review_data[1]),
                                     start_dt, end_dt, today)
               [] OTHER ->
                    ProcessFragments(a, frags, i + 1, acc, start_dt, end_dt, today)

\* the pagination controls of a page: the a.pagination__next link and the
\* button.pagination-next button, each "absent", "enabled" or "disabled"
Nav(link, button) == [link |-> link, button |-> button]

\* mutant: a disabled next link counts as a next page
HasNextPage_DisabledCounts(a, nav) ==
    IF a = "g2"
    THEN nav.link # "absent"
    ELSE nav.link # "absent" \/ nav.button = "enabled"

\* the check "is there a next page" after the fragments of a page
HasNextPage(a, nav) ==
    IF a = "g2"
    THEN nav.link = "enabled"
    ELSE nav.link = "enabled" \/ nav.button = "enabled"

(***************************************************************************)
(* The pools the environment and the inputs are drawn from.                *)
(***************************************************************************)
CompanyNames == {<<"A", "b">>}

CandPool ==
    {Link(<<"a", "b", "c">>, <<"/p/abc">>),
     Link(<<"x", "A", "B">>, <<"https://cdn.example", "/p/xab">>),
     Link(<<"b", "a">>, <<"/p/ba">>),
     Link(<<"A", "b">>, <<>>)}

\* what a product card may hold: a matching link, another link, none
CardPool ==
    {Link(<<"x", "A", "B">>, <<"https://cdn.example", "/p/xab">>),
     Link(<<"b", "a">>, <<"/p/ba">>),
     NoLink}

F_new == Frag(FALSE, IsoT(2023, 11, 1), NoEls)
F_in == Frag(FALSE, IsoT(2023, 10, 15), NoEls)
F_old == Frag(FALSE, IsoT(2023, 9, 1), NoEls)
F_raise == Frag(TRUE, NoText, NoEls)
F_text ==
    Frag(FALSE, NoText,
         [NoEls EXCEPT !["div.review__date"] = Mdy(2023, 10, 15),
                       !["span.ReviewCard__Date"] = Mdy(2023, 10, 15)])

FragPool == {F_new, F_in, F_old, F_raise, F_text}

NavPool ==
    {Nav("absent", "absent"), Nav("enabled", "absent"), Nav("disabled", "absent"),
     Nav("absent", "enabled")}

\* <<startDate, endDate>>: the window of the worked example, a one-day window
\* and an inverted one
Windows ==
    {<<Iso(2023, 10, 1), Iso(2023, 10, 31)>>,
     <<Iso(2023, 10, 15), Iso(2023, 10, 15)>>,
     <<Iso(2023, 10, 31), Iso(2023, 10, 1)>>}

\* a window that holds reviews of two different days, for the runs of a
\* single source
WideWindow == <<Iso(2023, 10, 1), Iso(2023, 11, 30)>>

\* the windows a run with the given selector is started with
WindowsOf(selector) ==
    IF selector = "all" THEN Windows ELSE Windows \cup {WideWindow}

Today == <<2024, 1, 15>>

NoResp == [kind |-> "none"]

\* a results page that lists the company under the named-link shape
GoodSearch ==
    [kind |-> "search", links |-> <<Link(<<"a", "b", "c">>, <<"/p/abc">>)>>,
     cards |-> <<>>]

(***************************************************************************)
(* scrape_reviews and the adapters as a state machine.                     *)
(***************************************************************************)
\* scrape_reviews: the sources the for loop runs over
sources_to_scrape ==
    IF source = "all" THEN <<"g2", "capterra", "software-advice">> ELSE <<source>>

\* the adapter the for loop is at
src == sources_to_scrape[idx]

Inputs == <<company_name, start_date, end_date, source, now, listing>>
ParseVars == <<p_adapter, p_frag, parsed>>
MainVars == <<demo, verdict, outcome, artifact>>
DateVars == <<d_string, d_result>>

\* what the adapters and scrape_reviews leave alone
Aside == <<ParseVars, MainVars, DateVars>>

\* the state scrape_reviews starts in, for the given selectors and listings
InitRun(selectors, listings) ==
    /\ company_name \in CompanyNames
    /\ source \in selectors
    /\ \E w \in WindowsOf(source) : start_date = w[1] /\ end_date = w[2]
    /\ listing \in listings
    /\ now = Today
    /\ pc = "loop"
    /\ idx = 1
    /\ agg_reviews = <<>>
    /\ attempt = 0
    /\ product_url = <<>>
    /\ page = 1
    /\ all_reviews = <<>>
    /\ status = "none"
    /\ ran = <<>>
    /\ resp = NoResp
    /\ n_search = 0
    /\ n_page = 0
    /\ p_adapter = "g2"
    /\ p_frag = F_raise
    /\ parsed = <<>>
    /\ wait = 0
    /\ demo = FALSE
    /\ verdict = "none"
    /\ outcome = "none"
    /\ artifact = <<>>
    /\ d_string = NoText
    /\ d_result = <<>>

Init == InitRun(Range(SOURCES), {<<>>})

\* mutant: the reviews of an adapter are put in front of those collected so far
AdapterReturns_Prepends(reviews) ==
    /\ status' = "returned"
    /\ ran' = Append(ran, [src |-> src, st |-> "returned", reviews |-> reviews])
    /\ agg_reviews' = reviews \o agg_reviews
    /\ idx' = idx + 1
    /\ pc' = IF idx + 1 > Len(sources_to_scrape) THEN "done" ELSE "loop"

\* get_reviews returns `reviews` to scrape_reviews, which extends its own list
\* with them and goes on to the next source, or returns after the last one
AdapterReturns(reviews) ==
    /\ status' = "returned"
    /\ ran' = Append(ran, [src |-> src, st |-> "returned", reviews |-> reviews])
    /\ agg_reviews' = agg_reviews \o reviews
    /\ idx' = idx + 1
    /\ pc' = IF idx + 1 > Len(sources_to_scrape) THEN "done" ELSE "loop"

\* mutant: the exception is not caught inside the for loop, which is left
AdapterRaises_Abort ==
    /\ status' = "raised"
    /\ ran' = Append(ran, [src |-> src, st |-> "raised", reviews |-> <<>>])
    /\ agg_reviews' = agg_reviews
    /\ idx' = idx + 1
    /\ pc' = "done"

\* get_reviews raises: scrape_reviews logs the exception and continues with the
\* next source
AdapterRaises ==
    /\ status' = "raised"
    /\ ran' = Append(ran, [src |-> src, st |-> "raised", reviews |-> <<>>])
    /\ agg_reviews' = agg_reviews
    /\ idx' = idx + 1
    /\ pc' = IF idx + 1 > Len(sources_to_scrape) THEN "done" ELSE "loop"

\* the Capterra adapter: search_company reads the undefined global
\* CAPTERRA_SEARCH_URL before its retry loop, so get_reviews raises NameError
\* before any request is made
RunCapterra ==
    /\ pc = "loop"
    /\ src = "capterra"
    /\ AdapterRaises
    /\ attempt' = 0
    /\ product_url' = <<>>
    /\ page' = 1
    /\ all_reviews' = <<>>
    /\ resp' = NoResp
    /\ n_search' = 0
    /\ n_page' = 0
    /\ wait' = wait
    /\ UNCHANGED <<Inputs, Aside>>

\* the G2 and Software Advice adapters: get_reviews calls search_company, which
\* enters its retry loop
StartSearch ==
    /\ pc = "loop"
    /\ src \in {"g2", "software-advice"}
    /\ pc' = "search"
    /\ status' = "running"
    /\ attempt' = 0
    /\ product_url' = <<>>
    /\ page' = 1
    /\ all_reviews' = <<>>
    /\ resp' = NoResp
    /\ n_search' = 0
    /\ n_page' = 0
    /\ wait' = wait
    /\ UNCHANGED <<Inputs, Aside, idx, agg_reviews, ran>>

\* mutant: the retry loop runs one attempt past MAX_RETRIES
SearchFails_OneMore ==
    /\ pc = "search"
    /\ resp' = [kind |-> "search_fail"]
    /\ n_search' = n_search + 1
    /\ attempt' = attempt + 1
    /\ wait' = IF attempt < MAX_RETRIES - 1
               THEN DELAY_BETWEEN_REQUESTS * (attempt + 1) ELSE 0
    /\ IF attempt + 1 <= MAX_RETRIES
       THEN UNCHANGED <<pc, status, ran, agg_reviews, idx>>
       ELSE AdapterReturns(<<>>)
    /\ UNCHANGED <<Inputs, Aside, product_url, page, all_reviews, n_page>>

\* a search request fails (requests.RequestException): retry, or give up after
\* MAX_RETRIES attempts, search_company returning None and get_reviews []
SearchFails ==
    /\ pc = "search"
    /\ resp' = [kind |-> "search_fail"]
    /\ n_search' = n_search + 1
    /\ attempt' = attempt + 1
    /\ wait' = IF attempt < MAX_RETRIES - 1
               THEN DELAY_BETWEEN_REQUESTS * (attempt + 1) ELSE 0
    /\ IF attempt + 1 < MAX_RETRIES
       THEN UNCHANGED <<pc, status, ran, agg_reviews, idx>>
       ELSE AdapterReturns(<<>>)
    /\ UNCHANGED <<Inputs, Aside, product_url, page, all_reviews, n_page>>

\* the results page the search request was answered with
SearchPages(a) ==
    IF listing = <<>>
    THEN {[kind |-> "search", links |-> l, cards |-> c] :
            l \in SeqsUpTo(CandPool, MaxCands),
            c \in SeqsUpTo(CardPool, MaxCands)}
    ELSE {GoodSearch}

\* Software Advice looks the card links up by the class of its named links, so
\* every link inside a card is also one of the named links
WellFormedSearch(a, r) ==
    a = "software-advice" =>
        \A i \in DOMAIN r.cards : r.cards[i] = NoLink \/ r.cards[i] \in Range(r.links)

\* a search request succeeds: search_company returns the URL of the match or
\* None (get_reviews then returns []), or raises KeyError on a matching link
\* without href
SearchResponds ==
    /\ pc = "search"
    /\ \E r \in SearchPages(src) :
        /\ WellFormedSearch(src, r)
        /\ resp' = r
        /\ n_search' = n_search + 1
        /\ LET found == FoundLink(company_name, r.links, r.cards)
           IN  IF found = NoLink
               THEN /\ AdapterReturns(<<>>)
                    /\ UNCHANGED product_url
               ELSE IF found.href = <<>>
               THEN /\ AdapterRaises
                    /\ UNCHANGED product_url
               ELSE /\ product_url' = urljoin(BaseUrl(src), found.href)
                    /\ pc' = "found"
                    /\ UNCHANGED <<status, ran, agg_reviews, idx>>
    /\ wait' = 0
    /\ UNCHANGED <<Inputs, Aside, attempt, page, all_reviews, n_page>>

\* get_reviews between search_company and its "while True" loop: it sets
\* all_reviews and page and parses the two dates (parse_date raises ValueError
\* on a malformed date string)
EnterLoop ==
    /\ pc = "found"
    /\ resp' = NoResp
    /\ IF validate_date_format(start_date) /\ validate_date_format(end_date)
       THEN /\ pc' = "pages"
            /\ UNCHANGED <<status, ran, agg_reviews, idx>>
       ELSE AdapterRaises
    /\ page' = 1
    /\ all_reviews' = <<>>
    /\ wait' = wait
    /\ UNCHANGED <<Inputs, Aside, attempt, product_url, n_search, n_page>>

\* mutant: the exception of a failed page fetch leaves get_reviews
FetchFails_Raises ==
    /\ pc = "pages"
    /\ resp' = [kind |-> "page_fail"]
    /\ n_page' = n_page + 1
    /\ AdapterRaises
    /\ wait' = 0
    /\ UNCHANGED <<Inputs, Aside, attempt, product_url, page, all_reviews,
                   n_search>>

\* the fetch of a review page fails (requests.RequestException): the loop is
\* left and get_reviews returns what it has accumulated
FetchFails ==
    /\ pc = "pages"
    /\ resp' = [kind |-> "page_fail"]
    /\ n_page' = n_page + 1
    /\ AdapterReturns(all_reviews)
    /\ wait' = 0
    /\ UNCHANGED <<Inputs, Aside, attempt, product_url, page, all_reviews,
                   n_search>>

\* the review pages a site may serve for page number n: a site lists at most
\* MaxPages pages of reviews, and serves no review past them; a listing fixed
\* in advance is served page by page
ReviewPages(n) ==
    IF listing = <<>>
    THEN {[kind |-> "page", frags |-> f, nav |-> v] :
            f \in SeqsUpTo(FragPool, IF n <= MaxPages THEN MaxFrags ELSE 0),
            v \in NavPool}
    ELSE IF n <= Len(listing) THEN {listing[n]}
    ELSE {[kind |-> "page", frags |-> <<>>, nav |-> Nav("absent", "absent")]}

\* mutant: the loop goes on to the next page without sleeping
FetchPage_NoWait ==
    /\ pc = "pages"
    /\ \E r \in ReviewPages(page) :
        /\ resp' = r
        /\ n_page' = n_page + 1
        /\ IF r.frags = <<>>
           THEN /\ AdapterReturns(all_reviews)
                /\ UNCHANGED <<page, all_reviews>>
           ELSE LET out == ProcessFragments(src, r.frags, 1, all_reviews,
                               parse_date(start_date), parse_date(end_date), now)
                IN  /\ all_reviews' = out.reviews
                    /\ IF out.stop # "none" \/ ~HasNextPage(src, r.nav)
                       THEN /\ AdapterReturns(out.reviews)
                            /\ UNCHANGED page
                       ELSE /\ page' = page + 1
                            /\ UNCHANGED <<pc, status, ran, agg_reviews, idx>>
    /\ wait' = 0
    /\ UNCHANGED <<Inputs, Aside, attempt, product_url, n_search>>

\* one iteration of the "while True" loop of get_reviews on a page that loads
FetchPage ==
    /\ pc = "pages"
    /\ \E r \in ReviewPages(page) :
        /\ resp' = r
        /\ n_page' = n_page + 1
        /\ IF r.frags = <<>>
           THEN /\ AdapterReturns(all_reviews)
                /\ wait' = 0
                /\ UNCHANGED <<page, all_reviews>>
           ELSE LET out == ProcessFragments(src, r.frags, 1, all_reviews,
                               parse_date(start_date), parse_date(end_date), now)
                IN  /\ all_reviews' = out.reviews
                    /\ IF out.stop # "none" \/ ~HasNextPage(src, r.nav)
                       THEN /\ AdapterReturns(out.reviews)
                            /\ wait' = 0
                            /\ UNCHANGED page
                       ELSE /\ page' = page + 1
                            /\ wait' = DELAY_BETWEEN_REQUESTS
                            /\ UNCHANGED <<pc, status, ran, agg_reviews, idx>>
    /\ UNCHANGED <<Inputs, Aside, attempt, product_url, n_search>>

Next ==
    \/ RunCapterra
    \/ StartSearch
    \/ SearchFails
    \/ SearchResponds
    \/ EnterLoop
    \/ FetchFails
    \/ FetchPage

Spec == Init /\ [][Next]_vars

\* the runs of a single source
InitSingle == InitRun(Adapters, {<<>>})

\* scrape_reviews runs in one thread and every request ends, by a response or
\* by an exception (each is made with timeout=REQUEST_TIMEOUT): a step that
\* can be taken is taken
SpecFair == InitSingle /\ [][Next]_vars /\ WF_vars(Next)

(***************************************************************************)
(* A site whose listing is fixed in advance: every request succeeds, the   *)
(* search results list the company, every page of the listing holds at     *)
(* least one review, every fragment shows a date, the reviews are listed   *)
(* newest first and every page but the last shows an enabled next link.    *)
(***************************************************************************)
ListPool == {F_new, F_in, F_old, F_text}

\* the date a fragment of ListPool displays
ShownDate(frag) ==
    IF frag.time # NoText THEN <<frag.time.y, frag.time.m, frag.time.d>>
    ELSE LET sh == CHOOSE x \in DateShapes : frag.els[x] # NoText
         IN  <<frag.els[sh].y, frag.els[sh].m, frag.els[sh].d>>

RECURSIVE Flatten(_, _)
\* the fragments of the pages i.. of a listing, in listing order
Flatten(pages, i) ==
    IF i > Len(pages) THEN <<>> ELSE pages[i].frags \o Flatten(pages, i + 1)

NewestFirst(frags) ==
    \A i \in 1..(Len(frags) - 1) : DateLE(ShownDate(frags[i + 1]), ShownDate(frags[i]))

Listings ==
    UNION {
        {[i \in 1..n |->
            [kind |-> "page", frags |-> f[i],
             nav |-> IF i < n THEN Nav("enabled", "absent")
                     ELSE Nav("absent", "absent")]] :
         f \in [1..n -> SeqsUpTo(ListPool, MaxFrags) \ {<<>>}]} :
        n \in 1..MaxPages}

SortedListings == {l \in Listings : NewestFirst(Flatten(l, 1))}

InitListing == InitRun(Adapters, SortedListings)

NextListing ==
    \/ RunCapterra
    \/ StartSearch
    \/ SearchResponds
    \/ EnterLoop
    \/ FetchPage

SpecListing == InitListing /\ [][NextListing]_vars

(***************************************************************************)
(* A site with a long listing: ManyPages pages of PerPage reviews each,    *)
(* all of them dated inside the window, every page but the last showing an *)
(* enabled next link.                                                      *)
(***************************************************************************)
ManyPages == 21
PerPage == 50

LongListing ==
    [i \in 1..ManyPages |->
        [kind |-> "page", frags |-> [j \in 1..PerPage |-> F_in],
         nav |-> IF i < ManyPages THEN Nav("enabled", "absent")
                 ELSE Nav("absent", "absent")]]

InitVolume == InitRun(Adapters, {LongListing})

SpecVolume == InitVolume /\ [][NextListing]_vars

(***************************************************************************)
(* parse_review as a function of the fragment: the adapter, the fragment   *)
(* and the current date are drawn from bounded sets and parse_review is    *)
(* applied once.                                                           *)
(***************************************************************************)
TimeTexts == {NoText, IsoT(2023, 10, 15), Junk}

ElTexts == {NoText, Mdy(2023, 10, 15), Ago(3, "month"), Junk}

\* the fragments that differ in their date markup
DateFrags ==
    {Frag(r, t, e) : r \in BOOLEAN, t \in TimeTexts, e \in [DateShapes -> ElTexts]}

\* the shapes some adapter looks a field up under
ShapesOf(field) ==
    UNION {Range(FieldCascade(a, field)) : a \in Adapters}

\* the fragments that hold elements of one field: any of its shapes may be
\* present, with a blank text or with its own name between blanks
FieldFrags ==
    UNION {
        {FieldFrag([sh \in S |-> IF sh \in B THEN <<" ">> ELSE <<" ", sh, " ">>],
                   NoRating) :
            B \in SUBSET S} :
        S \in UNION {SUBSET ShapesOf(field) : field \in Fields}}

\* the fragments that hold a rating element only
RatingFrags ==
    {FieldFrag(NoFields, RatingEl(st, sl, n, c)) :
        st \in {0, 4}, sl \in BOOLEAN, n \in {-1, 3}, c \in {-1, 5}}

\* the unit words of a relative phrase
UnitWords ==
    {"day", "days", "week", "weeks", "month", "months", "year", "years",
     "hours", "weekdays", "mondays"}

\* the relative phrases: "<n> <unit> ago", and a text that holds "ago" only
AgoTexts == {Ago(n, u) : n \in {0, 1, 3, 20}, u \in UnitWords} \cup {AgoX}

\* the fragments whose only date markup is one element with a relative phrase
AgoFrags ==
    {Frag(FALSE, NoText, [NoEls EXCEPT ![sh] = t]) :
        sh \in DateShapes, t \in AgoTexts}

\* the days parse_review may run on: the day of the worked example, and two
\* days that do not exist in every month or year
ParseDays == {Today, <<2024, 3, 31>>, <<2024, 2, 29>>}

ParseFrags == DateFrags \cup FieldFrags \cup RatingFrags \cup AgoFrags

InitParse ==
    /\ company_name \in CompanyNames
    /\ start_date = Iso(2023, 10, 1)
    /\ end_date = Iso(2023, 10, 31)
    /\ source = "all"
    /\ listing = <<>>
    /\ now \in ParseDays
    /\ pc = "parse"
    /\ idx = 1
    /\ agg_reviews = <<>>
    /\ attempt = 0
    /\ product_url = <<>>
    /\ page = 1
    /\ all_reviews = <<>>
    /\ status = "none"
    /\ ran = <<>>
    /\ resp = NoResp
    /\ n_search = 0
    /\ n_page = 0
    /\ p_adapter \in Adapters
    /\ p_frag \in ParseFrags
    /\ parsed = <<>>
    /\ wait = 0
    /\ demo = FALSE
    /\ verdict = "none"
    /\ outcome = "none"
    /\ artifact = <<>>
    /\ d_string = NoText
    /\ d_result = <<>>

\* review_data = self.parse_review(review_element)
ParseReview ==
    /\ pc = "parse"
    /\ parsed' = parse_review(p_adapter, p_frag, now)
    /\ pc' = "parsed"
    /\ UNCHANGED <<Inputs, idx, agg_reviews, attempt, product_url, page,
                   all_reviews, status, ran, resp, n_search, n_page,
                   p_adapter, p_frag, wait, MainVars, DateVars>>

NextParse == ParseReview

SpecParse == InitParse /\ [][NextParse]_vars

(***************************************************************************)
(* validate_date_format and parse_date as functions of a string: the       *)
(* string is drawn from DateStrings and the two functions are applied.     *)
(***************************************************************************)
CheckYears == {2023, 2024}
CheckMonths == {0, 1, 2, 11, 12, 13}
CheckDays == {0, 1, 28, 29, 30, 31, 32}

\* strings in the four numeric layouts, and two that are no numeric date; an
\* "isoS" string has a one-digit month or day
DateStrings ==
    {Text(f, y, m, d, 0, "") :
        f \in {"iso", "isoT", "dmy"}, y \in CheckYears, m \in CheckMonths,
        d \in CheckDays}
    \cup {IsoS(y, m, d) : y \in CheckYears, m \in {0, 1, 2}, d \in CheckDays}
    \cup {IsoS(y, m, d) : y \in CheckYears, m \in CheckMonths, d \in {0, 1}}
    \cup {Mdy(2023, 10, 15), Junk}

\* the state no run of scrape_reviews has touched
IdleRun ==
    /\ idx = 1
    /\ agg_reviews = <<>>
    /\ attempt = 0
    /\ product_url = <<>>
    /\ page = 1
    /\ all_reviews = <<>>
    /\ status = "none"
    /\ ran = <<>>
    /\ resp = NoResp
    /\ n_search = 0
    /\ n_page = 0
    /\ wait = 0
    /\ listing = <<>>
    /\ p_adapter = "g2"
    /\ p_frag = F_raise
    /\ parsed = <<>>

RunVars == <<idx, agg_reviews, attempt, product_url, page, all_reviews, status,
             ran, resp, n_search, n_page, wait>>

InitDate ==
    /\ IdleRun
    /\ company_name \in CompanyNames
    /\ start_date = Iso(2023, 10, 1)
    /\ end_date = Iso(2023, 10, 31)
    /\ source = "all"
    /\ now = Today
    /\ pc = "date"
    /\ demo = FALSE
    /\ verdict = "none"
    /\ outcome = "none"
    /\ artifact = <<>>
    /\ d_string \in DateStrings
    /\ d_result = <<>>

\* validate_date_format(d_string), then parse_date(d_string), which raises
\* ValueError (date <<>>) exactly when validate_date_format returns False
CheckDate ==
    /\ pc = "date"
    /\ pc' = "dated"
    /\ d_result' = <<[valid |-> validate_date_format(d_string),
                      date |-> IF validate_date_format(d_string)
                               THEN parse_date(d_string) ELSE <<>>]>>
    /\ UNCHANGED <<Inputs, RunVars, ParseVars, MainVars, d_string>>

NextDate == CheckDate

SpecDate == InitDate /\ [][NextDate]_vars

(***************************************************************************)
(* validate_inputs as a function of its arguments and of the current date. *)
(***************************************************************************)
RECURSIVE LStrip(_)
\* str.lstrip() for the blank
LStrip(s) == IF s # <<>> /\ Head(s) = " " THEN LStrip(Tail(s)) ELSE s

RECURSIVE RStrip(_)
\* str.rstrip() for the blank
RStrip(s) ==
    IF s # <<>> /\ s[Len(s)] = " " THEN RStrip(SubSeq(s, 1, Len(s) - 1)) ELSE s

\* str.strip()
Strip(s) == RStrip(LStrip(s))

\* source.lower(), for the selectors of SourceStrings
LowerSource(s) ==
    CASE s = "G2" -> "g2"
      [] s = "All" -> "all"
      [] s = "Capterra" -> "capterra"
      [] OTHER -> s

\* validate_inputs: "ok" when it returns, else the check that raises ValueError
validate_inputs(name, start, end, selector, today) ==
    IF name = <<>> \/ Strip(name) = <<>> THEN "name"
    ELSE IF ~validate_date_format(start) THEN "start_format"
    ELSE IF ~validate_date_format(end) THEN "end_format"
    ELSE IF DateLT(parse_date(end), parse_date(start)) THEN "range"
    ELSE IF DateLT(today, parse_date(start)) THEN "start_future"
    ELSE IF DateLT(today, parse_date(end)) THEN "end_future"
    ELSE IF LowerSource(selector) \notin Range(SOURCES) THEN "source"
    ELSE "ok"

NameStrings == {<<>>, <<" ">>, <<" ", " ">>, <<"A", "b">>, <<" ", "A", "b", " ">>}

SourceStrings ==
    {"g2", "capterra", "software-advice", "all", "G2", "All", "yelp", ""}

\* date arguments: past dates, the current date, the day after it, a day that
\* does not exist, and strings in other layouts
ArgDates ==
    {Iso(2023, 10, 1), Iso(2023, 10, 31), Iso(2024, 1, 15), Iso(2024, 1, 16),
     Iso(2023, 2, 29), IsoT(2023, 10, 1), Dmy(2023, 10, 1), IsoS(2023, 1, 5),
     Junk}

InitValidate ==
    /\ IdleRun
    /\ company_name \in NameStrings
    /\ start_date \in ArgDates
    /\ end_date \in ArgDates
    /\ source \in SourceStrings
    /\ now = Today
    /\ pc = "validate"
    /\ demo = FALSE
    /\ verdict = "none"
    /\ outcome = "none"
    /\ artifact = <<>>
    /\ d_string = NoText
    /\ d_result = <<>>

\* validate_inputs(company_name, start_date, end_date, source)
ValidateInputs ==
    /\ pc = "validate"
    /\ pc' = "validated"
    /\ verdict' = validate_inputs(company_name, start_date, end_date, source, now)
    /\ UNCHANGED <<Inputs, RunVars, ParseVars, DateVars, demo, outcome, artifact>>

NextValidate == ValidateInputs

SpecValidate == InitValidate /\ [][NextValidate]_vars

(***************************************************************************)
(* main: validate_inputs, then scrape_reviews (or the demo reviews), then  *)
(* the output file.  The source option is a click.Choice over SOURCES, so  *)
(* main is entered with one of the four selectors.  The file system is     *)
(* taken to accept every write.  The sites are of the kind SpecListing     *)
(* describes, except that their requests may fail.                         *)
(***************************************************************************)
\* one sample review: its texts are sequences of words, the company name
\* written into the title and the description; its rating is the numeric
\* literal as written
DemoReview(title, description, date, reviewer_name, rating, helpful_votes, label) ==
    [title |-> title, description |-> description, date |-> date,
     reviewer_name |-> reviewer_name, rating |-> rating,
     helpful_votes |-> helpful_votes, source |-> label]

\* the sample reviews of generate_demo_reviews (descriptions shortened to
\* their first words)
demo_reviews(name) ==
    <<DemoReview(<<"Excellent">> \o name \o <<"Platform">>,
                 name \o <<"has", "transformed">>,
                 Iso(2023, 8, 15), <<"John", "Smith">>, "5", <<"24">>, "G2"),
      DemoReview(<<"Powerful", "but", "Complex">> \o name,
                 <<"Great", "features", "from">> \o name,
                 Iso(2023, 9, 28), <<"Sarah", "Johnson">>, "4", <<"18">>, "Capterra"),
      DemoReview(<<"Best", "Investment", "-">> \o name,
                 name \o <<"'s", "platform">>,
                 Iso(2023, 11, 2), <<"Mike", "Chen">>, "5", <<"31">>,
                 "Software Advice"),
      DemoReview(<<"Good", "Tool", "-">> \o name,
                 <<"Solid", "platform", "from">> \o name,
                 Iso(2023, 7, 20), <<"Lisa", "Rodriguez">>, "3.5", <<"12">>, "G2"),
      DemoReview(<<"Outstanding", "Customer", "Service", "from">> \o name,
                 <<"What", "sets">> \o name \o <<"apart">>,
                 Iso(2023, 10, 10), <<"David", "Wilson">>, "4.5", <<"27">>,
                 "Capterra")>>

\* source_mapping.get(source, source)
target_source(selector) ==
    CASE selector = "g2" -> "G2"
      [] selector = "capterra" -> "Capterra"
      [] selector = "software-advice" -> "Software Advice"
      [] OTHER -> selector

\* mutant: the sample reviews are not filtered by source
generate_demo_reviews_AnySource(name, start, end, selector) ==
    SelectSeq(demo_reviews(name),
        LAMBDA r : InWindow(parse_date(r.date), parse_date(start), parse_date(end)))

\* generate_demo_reviews: the sample reviews of the source, then of the window
generate_demo_reviews(name, start, end, selector) ==
    LET of_source ==
            IF selector # "all"
            THEN SelectSeq(demo_reviews(name),
                           LAMBDA r : r.source = target_source(selector))
            ELSE demo_reviews(name)
    IN  SelectSeq(of_source,
            LAMBDA r : InWindow(parse_date(r.date), parse_date(start), parse_date(end)))

\* the dates main is given: the first and the last sample review's day, the
\* window of the listings, a day after today and a string that is no date
MainDates ==
    {Iso(2023, 7, 20), Iso(2023, 10, 1), Iso(2023, 10, 31), Iso(2023, 11, 2),
     Iso(2024, 1, 16), IsoT(2023, 10, 1)}

MainNames == {<<" ">>, <<"A", "b">>}

\* the listings main is run against: one review on every page
MainListings ==
    {l \in SortedListings : \A i \in DOMAIN l : Len(l[i].frags) = 1}

InitMain ==
    /\ company_name \in MainNames
    /\ start_date \in MainDates
    /\ end_date \in MainDates
    /\ source \in Range(SOURCES)
    /\ demo \in BOOLEAN
    /\ listing \in MainListings
    /\ now = Today
    /\ pc = "main"
    /\ idx = 1
    /\ agg_reviews = <<>>
    /\ attempt = 0
    /\ product_url = <<>>
    /\ page = 1
    /\ all_reviews = <<>>
    /\ status = "none"
    /\ ran = <<>>
    /\ resp = NoResp
    /\ n_search = 0
    /\ n_page = 0
    /\ wait = 0
    /\ p_adapter = "g2"
    /\ p_frag = F_raise
    /\ parsed = <<>>
    /\ verdict = "none"
    /\ outcome = "none"
    /\ artifact = <<>>
    /\ d_string = NoText
    /\ d_result = <<>>

\* mutant: the scraping starts whatever validate_inputs found
MainValidate_Ignored ==
    /\ pc = "main"
    /\ verdict' = validate_inputs(company_name, start_date, end_date, source, now)
    /\ IF verdict' # "ok"
       THEN /\ outcome' = "validation_error"
            /\ pc' = "loop"
            /\ UNCHANGED agg_reviews
       ELSE IF demo
       THEN /\ agg_reviews' = generate_demo_reviews(company_name, start_date, end_date,
                                                   source)
            /\ pc' = "done"
            /\ UNCHANGED outcome
       ELSE /\ pc' = "loop"
            /\ UNCHANGED <<agg_reviews, outcome>>
    /\ UNCHANGED <<Inputs, ParseVars, DateVars, demo, artifact, idx, attempt,
                   product_url, page, all_reviews, status, ran, resp, n_search,
                   n_page, wait>>

\* main up to the call of scrape_reviews: a ValueError of validate_inputs ends
\* the run as a click.BadParameter; in demo mode scrape_reviews returns the
\* sample reviews at once
MainValidate ==
    /\ pc = "main"
    /\ verdict' = validate_inputs(company_name, start_date, end_date, source, now)
    /\ IF verdict' # "ok"
       THEN /\ outcome' = "validation_error"
            /\ pc' = "exit"
            /\ UNCHANGED agg_reviews
       ELSE IF demo
       THEN /\ agg_reviews' = generate_demo_reviews(company_name, start_date, end_date,
                                                   source)
            /\ pc' = "done"
            /\ UNCHANGED outcome
       ELSE /\ pc' = "loop"
            /\ UNCHANGED <<agg_reviews, outcome>>
    /\ UNCHANGED <<Inputs, ParseVars, DateVars, demo, artifact, idx, attempt,
                   product_url, page, all_reviews, status, ran, resp, n_search,
                   n_page, wait>>

\* main after scrape_reviews returned: with no review it logs a warning and
\* returns; otherwise it dumps the reviews into the output file
MainFinish ==
    /\ pc = "done"
    /\ pc' = "exit"
    /\ IF agg_reviews = <<>>
       THEN /\ outcome' = "no_reviews"
            /\ UNCHANGED artifact
       ELSE /\ outcome' = "written"
            /\ artifact' = Append(artifact, agg_reviews)
    /\ UNCHANGED <<Inputs, RunVars, ParseVars, DateVars, demo, verdict>>

NextMain ==
    \/ MainValidate
    \/ RunCapterra
    \/ StartSearch
    \/ SearchFails
    \/ SearchResponds
    \/ EnterLoop
    \/ FetchFails
    \/ FetchPage
    \/ MainFinish

SpecMain == InitMain /\ [][NextMain]_vars

(***************************************************************************)
(* One iteration of the pagination loop on a page given by its markup: the *)
(* review elements are located under the adapter's candidate shapes and    *)
(* the loop over them is run.  The page is held in resp, as a function     *)
(* from the container shapes to the elements of that shape, in document    *)
(* order.  Capterra is left out: its get_reviews never gets to a page.     *)
(***************************************************************************)
ContainerShapes ==
    {"div.review", "div.ReviewCard", "div.review-card", "article.review",
     "div.user-review"}

\* the ordered container shapes an adapter looks the review elements up under
ContainerCascade(a) ==
    CASE a = "g2" -> <<"div.review">>
      [] a = "capterra" -> <<"div.ReviewCard", "div.review-card", "article.review">>
      [] OTHER -> <<"div.ReviewCard", "div.review-card", "article.review",
                    "div.user-review">>

RECURSIVE ReviewElements(_, _, _)
\* mutant: the elements of all the shapes are put together
ReviewElements_Combined(a, shapes, i) ==
    IF i > Len(ContainerCascade(a)) THEN <<>>
    ELSE shapes[ContainerCascade(a)[1]]
         \o (IF Len(ContainerCascade(a)) > 1
             THEN shapes[ContainerCascade(a)[2]] \o shapes[ContainerCascade(a)[3]]
                  \o shapes[ContainerCascade(a)[4]]
             ELSE <<>>)

\* review_elements: the chain "find_all(shape1); if not review_elements:
\* find_all(shape2); ...", from shape i of the cascade on
ReviewElements(a, shapes, i) ==
    IF i > Len(ContainerCascade(a)) THEN <<>>
    ELSE IF shapes[ContainerCascade(a)[i]] # <<>>
    THEN shapes[ContainerCascade(a)[i]]
    ELSE ReviewElements(a, shapes, i + 1)

\* a review element of the given container shape, told from those of the
\* other shapes by the day of its timestamp
ElementOf(sh) ==
    CASE sh = "div.review" -> Frag(FALSE, IsoT(2023, 10, 11), NoEls)
      [] sh = "div.ReviewCard" -> Frag(FALSE, IsoT(2023, 10, 12), NoEls)
      [] sh = "div.review-card" -> Frag(FALSE, IsoT(2023, 10, 13), NoEls)
      [] sh = "article.review" -> Frag(FALSE, IsoT(2023, 10, 14), NoEls)
      [] OTHER -> Frag(FALSE, IsoT(2023, 10, 15), NoEls)

\* the pages: under every shape no element, one, one followed by a review
\* older than the window, or one that fails followed by one
PageMarkups ==
    [ContainerShapes ->
        {<<>>, <<F_in>>, <<F_in, F_old>>, <<F_raise, F_in>>}]

ShapedPage(shapes) ==
    [kind |-> "markup",
     shapes |-> [sh \in ContainerShapes |->
                    [i \in DOMAIN shapes[sh] |->
                        IF shapes[sh][i] = F_in THEN ElementOf(sh)
                        ELSE shapes[sh][i]]]]

InitPage ==
    /\ company_name \in CompanyNames
    /\ start_date = Iso(2023, 10, 1)
    /\ end_date = Iso(2023, 10, 31)
    /\ source = "all"
    /\ now = Today
    /\ listing = <<>>
    /\ pc = "page"
    /\ idx = 1
    /\ agg_reviews = <<>>
    /\ attempt = 0
    /\ product_url = <<>>
    /\ page = 1
    /\ all_reviews = <<>>
    /\ status = "running"
    /\ ran = <<>>
    /\ \E m \in PageMarkups : resp = ShapedPage(m)
    /\ n_search = 1
    /\ n_page = 1
    /\ wait = 0
    /\ p_adapter \in {"g2", "software-advice"}
    /\ p_frag = F_raise
    /\ parsed = <<>>
    /\ demo = FALSE
    /\ verdict = "none"
    /\ outcome = "none"
    /\ artifact = <<>>
    /\ d_string = NoText
    /\ d_result = <<>>

\* the body of the "while True" loop of get_reviews from the parsed page to
\* the end of the loop over its review elements
HandlePage ==
    /\ pc = "page"
    /\ pc' = "handled"
    /\ LET review_elements == ReviewElements(p_adapter, resp.shapes, 1)
       IN  IF review_elements = <<>>
           THEN /\ status' = "returned"
                /\ UNCHANGED all_reviews
           ELSE LET out == ProcessFragments(p_adapter, review_elements, 1,
                               all_reviews, parse_date(start_date),
                               parse_date(end_date), now)
                IN  /\ all_reviews' = out.reviews
                    /\ status' = IF out.stop # "none" THEN "returned" ELSE "running"
    /\ UNCHANGED <<Inputs, Aside, idx, agg_reviews, attempt, product_url, page,
                   ran, resp, n_search, n_page, wait>>

NextPage == HandlePage

SpecPage == InitPage /\ [][NextPage]_vars

(***************************************************************************)
(* Reference definitions the properties are stated with.  They describe a  *)
(* page by what each of its fragments is for the running adapter, and do   *)
(* not use the loop of get_reviews.                                        *)
(***************************************************************************)
StartDay == parse_date(start_date)
EndDay == parse_date(end_date)

Last(s) == s[Len(s)]

\* the record parse_review produces from fragment f, when it produces one
Yields(a, f) == parse_review(a, f, now) # <<>>
RecordOf(a, f) == parse_review(a, f, now)[1]

\* what a fragment is for adapter a and the window:
\*   "dropped"  parse_review produces no record
\*   "undated"  the record's date is not a date parse_date accepts
\*   "kept"     startDate <= date <= endDate
\*   "old"      date < startDate
\*   "late"     any other date
KindOf(a, f) ==
    LET rd == parse_review(a, f, now)
    IN  IF rd = <<>> THEN "dropped"
        ELSE IF ~validate_date_format(rd[1].date) THEN "undated"
        ELSE LET d == parse_date(rd[1].date)
             IN  IF DateLE(StartDay, d) /\ DateLE(d, EndDay) THEN "kept"
                 ELSE IF DateLT(d, StartDay) THEN "old"
                 ELSE "late"

\* the kinds of the fragments of a page, in page order
Kinds(a, frags) == [i \in DOMAIN frags |-> KindOf(a, frags[i])]

\* the first fragment of a page that ends the loop (a review older than
\* startDate, or a record whose date cannot be parsed); 0 when there is none
StopIndex(kinds) ==
    LET stops == {i \in DOMAIN kinds : kinds[i] \in {"old", "undated"}}
    IN  IF stops = {} THEN 0 ELSE CHOOSE i \in stops : \A j \in stops : i <= j

\* the fragments of a page the loop gets to, the stopping one excluded
Reached(kinds) ==
    IF StopIndex(kinds) = 0 THEN DOMAIN kinds ELSE 1..(StopIndex(kinds) - 1)

RECURSIVE KeptFrom(_, _, _, _)
\* the records of the in-window fragments among the reached ones, in page order
KeptFrom(a, frags, kinds, i) ==
    IF i \notin Reached(kinds) THEN <<>>
    ELSE IF kinds[i] = "kept"
    THEN <<RecordOf(a, frags[i])>> \o KeptFrom(a, frags, kinds, i + 1)
    ELSE KeptFrom(a, frags, kinds, i + 1)

KeptOf(a, frags) == KeptFrom(a, frags, Kinds(a, frags), 1)

\* the loop stops at a fragment of the given kind
StopsAt(a, frags, kind) ==
    LET kinds == Kinds(a, frags)
    IN  StopIndex(kinds) # 0 /\ kinds[StopIndex(kinds)] = kind

\* the loop gets to a fragment of the given kind
Meets(a, frags, kind) ==
    LET kinds == Kinds(a, frags)
    IN  \E i \in Reached(kinds) : kinds[i] = kind

\* the page shows an enabled next-page indicator the adapter looks for
NextShown(a, nav) == nav.link = "enabled" \/ (a # "g2" /\ nav.button = "enabled")

\* this step handled the response to a review page request that loaded
PageStep == pc = "pages" /\ resp'.kind = "page"

\* get_reviews of the running adapter returns `reviews` in this step
ReturnsNow(reviews) ==
    /\ status' = "returned"
    /\ pc' \in {"loop", "done"}
    /\ Len(ran') = Len(ran) + 1
    /\ Last(ran').src = src
    /\ Last(ran').st = "returned"
    /\ Last(ran').reviews = reviews
    /\ agg_reviews' = agg_reviews \o reviews

\* the pagination loop goes on to the next page in this step
GoesOn ==
    /\ pc' = "pages"
    /\ page' = page + 1
    /\ status' = "running"
    /\ ran' = ran

(***************************************************************************)
(* C1: every review an adapter's get_reviews returned (and so every review *)
(* scrape_reviews holds) has a date d with startDate <= d <= endDate, both *)
(* bounds inclusive.                                                       *)
(***************************************************************************)
DateInWindow(r) ==
    /\ validate_date_format(r.date)
    /\ DateLE(StartDay, parse_date(r.date))
    /\ DateLE(parse_date(r.date), EndDay)

C1_ReturnedInWindow ==
    /\ \A k \in DOMAIN ran : \A i \in DOMAIN ran[k].reviews :
            DateInWindow(ran[k].reviews[i])
    /\ \A i \in DOMAIN agg_reviews : DateInWindow(agg_reviews[i])

\* both G2 and Software Advice returned reviews, from a one-day window whose
\* two bounds are the date of the reviews
C1_Witness ==
    /\ pc = "done"
    /\ source = "all"
    /\ start_date = end_date
    /\ ran[1].reviews # <<>>
    /\ ran[3].reviews # <<>>

(***************************************************************************)
(* C2: when the loop over a page produces a review dated strictly before   *)
(* startDate, get_reviews returns in that step the reviews accumulated so  *)
(* far (those of the earlier pages and of the fragments before it): no     *)
(* later fragment of the page is processed and no further page is fetched. *)
(***************************************************************************)
C2_StopsAtOld ==
    [][ (PageStep /\ StopsAt(src, resp'.frags, "old"))
        => (/\ all_reviews' = all_reviews \o KeptOf(src, resp'.frags)
            /\ ReturnsNow(all_reviews')
            /\ page' = page
            /\ n_page' = n_page + 1) ]_vars

\* page 2 of G2 listed an old review and then an in-window one, with a next
\* link: the review of page 1 is returned alone
C2_Witness ==
    /\ status = "returned"
    /\ Last(ran).src = "g2"
    /\ start_date = Iso(2023, 10, 1)
    /\ page = 2
    /\ resp.kind = "page"
    /\ resp.frags = <<F_old, F_in>>
    /\ resp.nav = Nav("enabled", "absent")
    /\ Last(ran).reviews = <<Plain("G2", Iso(2023, 10, 15))>>

(***************************************************************************)
(* C3: on a site whose listing is sorted newest first, where every fetch   *)
(* succeeds, every fragment yields a record and every page but the last    *)
(* shows a next-page indicator, get_reviews returns exactly the listed     *)
(* reviews whose date lies in [startDate, endDate], in listing order.      *)
(* Checked under SpecListing, whose sites are of that kind.                *)
(***************************************************************************)
RECURSIVE ListedInWindow(_, _, _)
\* the records of the listed reviews whose shown date is in the window
ListedInWindow(label, frags, i) ==
    IF i > Len(frags) THEN <<>>
    ELSE IF DateLE(StartDay, ShownDate(frags[i])) /\ DateLE(ShownDate(frags[i]), EndDay)
    THEN <<Plain(label, strftime(ShownDate(frags[i])))>>
         \o ListedInWindow(label, frags, i + 1)
    ELSE ListedInWindow(label, frags, i + 1)

C3_ExactlyListed ==
    pc = "done" =>
        /\ Len(ran) = 1
        /\ ran[1].st = "returned"
        /\ ran[1].reviews = ListedInWindow(SourceLabel(source), Flatten(listing, 1), 1)

(***************************************************************************)
(* C4: with source "all", an adapter that raises contributes no review,    *)
(* the adapters after it are still run, and the result scrape_reviews      *)
(* returns holds what the other adapters returned, in order.               *)
(***************************************************************************)
C4_FailureIsolated ==
    (pc = "done" /\ source = "all") =>
        /\ Len(ran) = 3
        /\ ran[1].src = "g2" /\ ran[2].src = "capterra"
        /\ ran[3].src = "software-advice"
        /\ \A k \in 1..3 : ran[k].st = "raised" =>
              \A i \in DOMAIN agg_reviews :
                  agg_reviews[i].source # SourceLabel(ran[k].src)
        /\ agg_reviews =
              (IF ran[1].st = "returned" THEN ran[1].reviews ELSE <<>>)
              \o (IF ran[2].st = "returned" THEN ran[2].reviews ELSE <<>>)
              \o (IF ran[3].st = "returned" THEN ran[3].reviews ELSE <<>>)

\* the Capterra adapter raised between a G2 and a Software Advice run that
\* each returned reviews
C4_Witness ==
    /\ pc = "done"
    /\ source = "all"
    /\ ran[1].st = "returned" /\ ran[1].reviews # <<>>
    /\ ran[2].st = "raised"
    /\ ran[3].st = "returned" /\ ran[3].reviews # <<>>
    /\ Len(agg_reviews) = Len(ran[1].reviews) + Len(ran[3].reviews)

(***************************************************************************)
(* C5: in each of the three adapters search_company issues the search      *)
(* request; when the results list a candidate (with a URL) whose text      *)
(* contains the company name case-insensitively it returns the absolute    *)
(* URL of the first one, named links before cards; when no candidate       *)
(* matches it returns None.                                                *)
(***************************************************************************)
\* the candidates of a results page in the order they are to be tried
Candidates(r) == r.links \o SelectSeq(r.cards, LAMBDA c : c # NoLink)

\* the positions of the candidates whose text contains the company name
Matching(r) ==
    {i \in DOMAIN Candidates(r) : Matches(company_name, Candidates(r)[i].text)}

FirstMatching(r) ==
    Candidates(r)[CHOOSE i \in Matching(r) : \A j \in Matching(r) : i <= j]

AbsoluteUrl(a, href) == IF Len(href) = 2 THEN href ELSE <<BaseUrl(a), href[1]>>

C5_SearchResolves ==
    /\ status \in {"returned", "raised"} => n_search >= 1
    /\ (resp.kind = "search" /\ Matching(resp) = {}) =>
            (status = "returned" /\ product_url = <<>>)
    /\ (resp.kind = "search" /\ Matching(resp) # {}
            /\ FirstMatching(resp).href # <<>>) =>
            (/\ pc = "found"
             /\ product_url = AbsoluteUrl(src, FirstMatching(resp).href))

(***************************************************************************)
(* C6: search_company issues at most MAX_RETRIES search requests; a failed *)
(* request below the ceiling leaves it in its retry loop; when every       *)
(* attempt failed it returns None and get_reviews returns [] without       *)
(* having requested a review page, as it does when the search results      *)
(* list no matching candidate.                                             *)
(***************************************************************************)
\* get_reviews returned [] on a search that resolved to None
EmptyOutcome ==
    /\ status = "returned"
    /\ Last(ran).st = "returned"
    /\ Last(ran).reviews = <<>>
    /\ product_url = <<>>
    /\ n_page = 0

C6_RetryCeiling ==
    /\ n_search <= MAX_RETRIES
    /\ (resp.kind = "search_fail" /\ n_search < MAX_RETRIES) =>
            (pc = "search" /\ status = "running")
    /\ (resp.kind = "search_fail" /\ n_search >= MAX_RETRIES) => EmptyOutcome
    /\ (resp.kind = "search" /\ Matching(resp) = {}) => EmptyOutcome

\* the third search request of the Software Advice adapter failed as the two
\* before it
C6_Witness ==
    /\ resp.kind = "search_fail"
    /\ n_search = MAX_RETRIES
    /\ Last(ran).src = "software-advice"
    /\ EmptyOutcome

(***************************************************************************)
(* C7: when the fetch of a review page fails, get_reviews returns in that  *)
(* step exactly the reviews accumulated from the pages before it: the page *)
(* is not requested again and no later page is requested.                  *)
(***************************************************************************)
C7_PageFailureReturnsPartial ==
    [][ (pc = "pages" /\ resp'.kind = "page_fail")
        => (/\ ReturnsNow(all_reviews)
            /\ all_reviews' = all_reviews
            /\ page' = page
            /\ n_page' = n_page + 1) ]_vars

\* the fetch of page 2 failed and the review of page 1 was returned
C7_Witness ==
    /\ status = "returned"
    /\ resp.kind = "page_fail"
    /\ page = 2
    /\ n_page = 2
    /\ Last(ran).reviews = <<Plain("G2", Iso(2023, 10, 15))>>

(***************************************************************************)
(* C8: a record parse_review produces carries an ISO calendar date,        *)
(* whether the fragment holds a timestamp attribute, a relative or an      *)
(* absolute phrase, free text that is no date, or no date element.         *)
(* Checked under SpecParse on the fragments whose timestamp attribute,     *)
(* when there is one, is machine-readable.                                 *)
(***************************************************************************)
C8_DateIsIso ==
    (/\ pc = "parsed"
     /\ parsed # <<>>
     /\ p_frag.time.form \in {"none", "iso", "isoT"})
    => validate_date_format(parsed[1].date)

(***************************************************************************)
(* C9: when the loop over a page's fragments gets to a fragment whose      *)
(* extraction fails, only that record is missing: the reviews accumulated  *)
(* before stay, the in-window reviews of the other fragments of the page   *)
(* are appended, and the next page is requested when the page shows one.   *)
(***************************************************************************)
C9_FailedFragmentDropped ==
    [][ (PageStep /\ Meets(src, resp'.frags, "dropped"))
        => (/\ all_reviews' = all_reviews \o KeptOf(src, resp'.frags)
            /\ (StopIndex(Kinds(src, resp'.frags)) = 0
                    /\ NextShown(src, resp'.nav)) => GoesOn
            /\ (StopIndex(Kinds(src, resp'.frags)) # 0
                    \/ ~NextShown(src, resp'.nav)) => ReturnsNow(all_reviews')) ]_vars

\* page 2 began with a fragment that failed: the review of page 1 stayed, the
\* review after the failed fragment was collected and page 3 is up next
C9_Witness ==
    /\ pc = "pages"
    /\ page = 3
    /\ resp.kind = "page"
    /\ resp.frags = <<F_raise, F_in>>
    /\ Len(all_reviews) = 2

(***************************************************************************)
(* C10: when the loop over a page's fragments gets to a review dated after *)
(* endDate, that review is not appended and the loop goes on: the          *)
(* in-window reviews of the later fragments are appended and the next page *)
(* is requested when the page shows one.                                   *)
(***************************************************************************)
C10_LateReviewSkipped ==
    [][ (PageStep /\ Meets(src, resp'.frags, "late"))
        => (/\ all_reviews' = all_reviews \o KeptOf(src, resp'.frags)
            /\ \A i \in DOMAIN all_reviews' :
                  DateLE(parse_date(all_reviews'[i].date), EndDay)
            /\ (StopIndex(Kinds(src, resp'.frags)) = 0
                    /\ NextShown(src, resp'.nav)) => GoesOn) ]_vars

\* page 1 listed a review of November before one of October: the later one
\* was collected and page 2 is up next
C10_Witness ==
    /\ pc = "pages"
    /\ page = 2
    /\ end_date = Iso(2023, 10, 31)
    /\ resp.kind = "page"
    /\ resp.frags = <<F_new, F_in>>
    /\ all_reviews = <<Plain("Software Advice", Iso(2023, 10, 15))>>

(***************************************************************************)
(* C11: with source "all" the adapters are run one after another in the    *)
(* order g2, capterra, software-advice, each once, and the result is the   *)
(* concatenation of what they returned in that order: no G2 review follows *)
(* a Capterra review and no Capterra review follows a Software Advice      *)
(* review.  With a single named source only that adapter is run.           *)
(***************************************************************************)
\* the place of a source label in the fixed order of the adapters
LabelRank(label) ==
    CASE label = "G2" -> 1
      [] label = "Capterra" -> 2
      [] OTHER -> 3

RECURSIVE OutputsFrom(_)
\* what the adapter runs k.. handed to scrape_reviews, one after another
OutputsFrom(k) ==
    IF k > Len(ran) THEN <<>> ELSE ran[k].reviews \o OutputsFrom(k + 1)

C11_FixedOrderConcat ==
    /\ Len(ran) <= Len(sources_to_scrape)
    /\ \A k \in DOMAIN ran : ran[k].src = sources_to_scrape[k]
    /\ pc = "done" => Len(ran) = Len(sources_to_scrape)
    /\ source = "all" =>
            sources_to_scrape = <<"g2", "capterra", "software-advice">>
    /\ source # "all" => sources_to_scrape = <<source>>
    /\ agg_reviews = OutputsFrom(1)
    /\ \A i, j \in DOMAIN agg_reviews :
            i < j => LabelRank(agg_reviews[i].source) <= LabelRank(agg_reviews[j].source)

\* all three adapters were run and the result holds the two reviews of G2
\* before the review of Software Advice
C11_Witness ==
    /\ pc = "done"
    /\ source = "all"
    /\ Len(ran) = 3
    /\ Len(ran[1].reviews) = 2
    /\ Len(ran[3].reviews) = 1
    /\ agg_reviews = ran[1].reviews \o ran[3].reviews

(***************************************************************************)
(* C20: validate_date_format returns True exactly for the strings that     *)
(* are a valid calendar date written YYYY-MM-DD (Feb 29 of a leap year     *)
(* included) and False for a month or day out of range, for a string with  *)
(* a time component and for another field order; parse_date of an accepted *)
(* string gives that year, month and day.  Checked under SpecDate.         *)
(***************************************************************************)
\* the lengths of the months of a common year
MonthLengths == <<31, 28, 31, 30, 31, 30, 31, 31, 30, 31, 30, 31>>

\* day d of month m of year y exists in the Gregorian calendar
CalendarDay(y, m, d) ==
    /\ m \in 1..12
    /\ d >= 1
    /\ \/ d <= MonthLengths[m]
       \/ m = 2 /\ d = 29 /\ (y % 4 = 0 /\ (y % 100 # 0 \/ y % 400 = 0))

C20_AcceptsExactlyIsoDates ==
    pc = "dated" =>
        /\ d_result[1].valid =
              (d_string.form = "iso" /\ CalendarDay(d_string.y, d_string.m, d_string.d))
        /\ d_result[1].valid =>
              d_result[1].date = <<d_string.y, d_string.m, d_string.d>>

(***************************************************************************)
(* C12: validate_inputs raises if and only if the company name is empty    *)
(* after trimming, or startDate or endDate is no valid ISO calendar date,  *)
(* or startDate > endDate, or one of the dates is after the current time,  *)
(* or the source is none of g2, capterra, software-advice, all.  Checked   *)
(* under SpecValidate.                                                     *)
(***************************************************************************)
\* the string is blank throughout
Blank(s) == \A i \in DOMAIN s : s[i] = " "

\* the string is a calendar date written YYYY-MM-DD
IsoCalendarDate(s) == s.form = "iso" /\ CalendarDay(s.y, s.m, s.d)

\* both strings are ISO calendar dates and the first is the later day
LaterDay(s, t) ==
    /\ IsoCalendarDate(s)
    /\ IsoCalendarDate(t)
    /\ s.y * 10000 + s.m * 100 + s.d > t.y * 10000 + t.m * 100 + t.d

\* one of the conditions under which validation is to fail holds
MustReject ==
    \/ Blank(company_name)
    \/ ~IsoCalendarDate(start_date)
    \/ ~IsoCalendarDate(end_date)
    \/ LaterDay(start_date, end_date)
    \/ LaterDay(start_date, strftime(now))
    \/ LaterDay(end_date, strftime(now))
    \/ source \notin {"g2", "capterra", "software-advice", "all"}

C12_RejectsExactlyBadInputs ==
    pc = "validated" => ((verdict # "ok") <=> MustReject)

(***************************************************************************)
(* C13: in a run of main a validation error comes before any network       *)
(* activity: when validation fails no adapter is invoked, no request is    *)
(* issued and no output file is written.  Checked under SpecMain.          *)
(***************************************************************************)
\* no adapter has been invoked, no request issued and no file written
NothingDone ==
    /\ status = "none"
    /\ ran = <<>>
    /\ n_search = 0
    /\ n_page = 0
    /\ resp = NoResp
    /\ agg_reviews = <<>>
    /\ artifact = <<>>

C13_ValidationFirst ==
    /\ verdict = "none" => (pc = "main" /\ NothingDone)
    /\ verdict \notin {"none", "ok"} =>
            (pc = "exit" /\ outcome = "validation_error" /\ NothingDone)
    /\ outcome = "validation_error" => verdict \notin {"none", "ok"}

\* the run ended on an inverted date range
C13_Witness ==
    /\ pc = "exit"
    /\ outcome = "validation_error"
    /\ verdict = "range"
    /\ ~demo
    /\ NothingDone

(***************************************************************************)
(* C14: every run of main whose inputs pass validation ends by writing the *)
(* output file, a JSON array of the reviews collected, whatever their      *)
(* number, zero included; the only other way a run ends is a validation    *)
(* error.  Checked under SpecMain.                                         *)
(***************************************************************************)
C14_AlwaysWritesArtifact ==
    pc = "exit" =>
        \/ outcome = "validation_error" /\ verdict # "ok"
        \/ outcome = "written" /\ verdict = "ok" /\ artifact = <<agg_reviews>>

(***************************************************************************)
(* C15: title, description, reviewer name and helpful votes of a record    *)
(* are each the trimmed text of the first shape of the adapter's ordered   *)
(* list that gives a non-empty result; a shape that is present with an     *)
(* empty text does not win; when no shape gives a non-empty result the     *)
(* field is its sentinel.  Checked under SpecParse.                        *)
(***************************************************************************)
\* the words of a text from its first to its last word that is no blank
Trimmed(t) ==
    LET words == {k \in DOMAIN t : t[k] # " "}
    IN  IF words = {} THEN <<>>
        ELSE SubSeq(t, CHOOSE k \in words : \A j \in words : k <= j,
                       CHOOSE k \in words : \A j \in words : k >= j)

\* the places in the adapter's list of the shapes present with a text that is
\* not empty once trimmed
Productive(a, field, frag) ==
    {i \in DOMAIN FieldCascade(a, field) :
        /\ FieldCascade(a, field)[i] \in DOMAIN frag.fields
        /\ Trimmed(frag.fields[FieldCascade(a, field)[i]]) # <<>>}

\* the value the cascade of a field is to give
CascadeValue(a, field, frag) ==
    LET good == Productive(a, field, frag)
    IN  IF good = {}
        THEN (CASE field = "title" -> <<"No Title">>
                [] field = "description" -> <<>>
                [] field = "reviewer_name" -> <<"Anonymous">>
                [] OTHER -> <<"0">>)
        ELSE Trimmed(frag.fields[FieldCascade(a, field)[
                 CHOOSE i \in good : \A j \in good : i <= j]])

C15_FirstNonEmptyShapeWins ==
    (pc = "parsed" /\ parsed # <<>>) =>
        \A field \in Fields : parsed[1][field] = CascadeValue(p_adapter, field, p_frag)

(***************************************************************************)
(* C16: for a fragment with no recognizable sub-element parse_review of    *)
(* every adapter returns a record, with title "No Title", description "",  *)
(* reviewer_name "Anonymous", rating 0, helpful_votes "0", the adapter's   *)
(* source label and today's date; a fragment whose extraction fails gives  *)
(* no record, which is another outcome.  Checked under SpecParse.          *)
(***************************************************************************)
\* the fragment has no element parse_review looks for
Bare(frag) ==
    /\ frag.time = NoText
    /\ \A sh \in DateShapes : frag.els[sh] = NoText
    /\ DOMAIN frag.fields = {}
    /\ frag.rating = NoRating

C16_AllSentinelRecord ==
    (pc = "parsed" /\ Bare(p_frag)) =>
        IF p_frag.raises THEN parsed = <<>>
        ELSE /\ Len(parsed) = 1
             /\ parsed[1].title = <<"No Title">>
             /\ parsed[1].description = <<>>
             /\ parsed[1].reviewer_name = <<"Anonymous">>
             /\ parsed[1].rating = 0
             /\ parsed[1].helpful_votes = <<"0">>
             /\ parsed[1].date = Iso(now[1], now[2], now[3])
             /\ parsed[1].source =
                    (CASE p_adapter = "g2" -> "G2"
                       [] p_adapter = "capterra" -> "Capterra"
                       [] p_adapter = "software-advice" -> "Software Advice")
             /\ DOMAIN parsed[1] =
                    {"title", "description", "date", "reviewer_name", "rating",
                     "helpful_votes", "source"}

\* the Capterra adapter made the all-sentinel record of a bare fragment
C16_Witness ==
    /\ pc = "parsed"
    /\ p_adapter = "capterra"
    /\ Bare(p_frag)
    /\ ~p_frag.raises
    /\ Len(parsed) = 1
    /\ parsed[1].title = <<"No Title">>
    /\ parsed[1].date = Iso(2024, 1, 15)


(***************************************************************************)
(* C17: an inverted window.                                                *)
(***************************************************************************)
\* startDate is later than endDate
Inverted == DateLT(parse_date(end_date), parse_date(start_date))

\* C17: when get_reviews of any adapter is invoked with startDate > endDate
\* it does not raise and returns an empty list, whatever the site serves.
C17_InvertedWindowIsEmpty ==
    Inverted =>
        \A i \in DOMAIN ran : ran[i].st = "returned" /\ ran[i].reviews = <<>>

(***************************************************************************)
(* C18: the waits between the requests of one adapter.                     *)
(***************************************************************************)
\* the step issues a search request, the k-th of the running adapter
SearchRequest(k) == pc = "search" /\ n_search' = k /\ n_search = k - 1

\* the step issues the request for a review page
PageRequest == pc = "pages" /\ n_page' = n_page + 1

\* C18: within one adapter the request for page n+1 is preceded by exactly
\* one wait of DELAY_BETWEEN_REQUESTS after the request for page n; a failed
\* search attempt k is followed by a wait of k * DELAY_BETWEEN_REQUESTS before
\* attempt k+1; no wait follows the last failed attempt.
C18_WaitsBetweenRequests ==
    [][/\ PageRequest /\ page' = page + 1 => wait' = DELAY_BETWEEN_REQUESTS
       /\ PageRequest /\ page > 1 => wait = DELAY_BETWEEN_REQUESTS
       /\ PageRequest /\ page = 1 => wait = 0
       /\ \A k \in 1..MAX_RETRIES :
            /\ SearchRequest(k) /\ resp'.kind = "search_fail" =>
                 /\ k < MAX_RETRIES => pc' = "search" /\ wait' = k * DELAY_BETWEEN_REQUESTS
                 /\ k = MAX_RETRIES => pc' # "search" /\ wait' = 0
            /\ SearchRequest(k) /\ k > 1 =>
                 resp.kind = "search_fail" /\ wait = (k - 1) * DELAY_BETWEEN_REQUESTS
      ]_vars

\* the second search attempt has failed and the adapter has slept twice the
\* delay before the third
C18_Witness ==
    /\ pc = "search"
    /\ resp.kind = "search_fail"
    /\ n_search = 2
    /\ wait = 2 * DELAY_BETWEEN_REQUESTS

(***************************************************************************)
(* C19: relative date phrases.  Checked under SpecParse on the fragments   *)
(* whose only date markup is one element holding a phrase with "ago".      *)
(***************************************************************************)
\* the days of a common year before the first of each month
DaysBeforeMonth == <<0, 31, 59, 90, 120, 151, 181, 212, 243, 273, 304, 334>>

\* the number of the day dt, counting 0001-01-01 as day 1
Ordinal(dt) ==
    LET y == dt[1] - 1
    IN  365 * y + (y \div 4) - (y \div 100) + (y \div 400)
        + DaysBeforeMonth[dt[2]]
        + (IF dt[2] > 2 /\ CalendarDay(dt[1], 2, 29) THEN 1 ELSE 0)
        + dt[3]

\* the calendar day k days before dt, for k of less than a year
DaysBefore(dt, k) ==
    CHOOSE e \in {c \in ((dt[1] - 1)..dt[1]) \X (1..12) \X (1..31) :
                    CalendarDay(c[1], c[2], c[3])} :
        Ordinal(dt) - Ordinal(e) = k

\* day d of month m of year y, or the last day of that month when it has
\* fewer than d days
DayOfMonth(y, m, d) ==
    <<y, m, CHOOSE e \in 1..d :
                /\ CalendarDay(y, m, e)
                /\ \A f \in (e + 1)..d : ~CalendarDay(y, m, f)>>

\* the same day of the month k months before dt
MonthsBefore(dt, k) ==
    LET ym == CHOOSE c \in ((dt[1] - 1 - (k \div 12))..dt[1]) \X (1..12) :
                  (dt[1] - c[1]) * 12 + (dt[2] - c[2]) = k
    IN  DayOfMonth(ym[1], ym[2], dt[3])

\* the unit a unit word names: the word itself or its plural
UnitOf(word) ==
    CASE word \in {"day", "days"} -> "day"
      [] word \in {"week", "weeks"} -> "week"
      [] word \in {"month", "months"} -> "month"
      [] word \in {"year", "years"} -> "year"
      [] OTHER -> "unrecognized"

\* what the phrase resolves to on the day `today`
Resolved(phrase, today) ==
    IF phrase.form # "ago" THEN today
    ELSE CASE UnitOf(phrase.unit) = "day" -> DaysBefore(today, phrase.n)
           [] UnitOf(phrase.unit) = "week" -> DaysBefore(today, 7 * phrase.n)
           [] UnitOf(phrase.unit) = "month" -> MonthsBefore(today, phrase.n)
           [] UnitOf(phrase.unit) = "year" ->
                DayOfMonth(today[1] - phrase.n, today[2], today[3])
           [] OTHER -> today

\* the adapter a meets the relative phrase of the fragment: the fragment's
\* only date markup is one element of shape sh, which the adapter looks up
MeetsPhrase(a, frag, sh) ==
    /\ ~frag.raises
    /\ frag.time = NoText
    /\ sh \in Range(DateCascade(a))
    /\ frag.els[sh].form \in {"ago", "agoX"}
    /\ \A o \in DateShapes \ {sh} : frag.els[o] = NoText

\* C19: a phrase "<N> <unit> ago" with unit day, week, month or year resolves
\* to the current date minus N of that unit; a phrase with an unrecognized
\* unit, or with "ago" outside the pattern, resolves to the current date; in
\* every adapter that meets a relative phrase.
C19_RelativePhraseResolved ==
    pc = "parsed" =>
        \A sh \in DateShapes :
            MeetsPhrase(p_adapter, p_frag, sh) =>
                /\ Len(parsed) = 1
                /\ LET day == Resolved(p_frag.els[sh], now)
                   IN  parsed[1].date = Iso(day[1], day[2], day[3])

(***************************************************************************)
(* C21: the rating of a record.  Checked under SpecParse on the fragments  *)
(* that hold a rating element, and on those that hold none.                *)
(***************************************************************************)
\* the rating of the rating element r (NoRating: the fragment has none) for
\* adapter a: the filled stars, else the numerator of the fraction, else for
\* Software Advice the N of its "stars-N" class, else 0
RatingOf(a, r) ==
    IF r = NoRating THEN 0
    ELSE IF r.stars > 0 THEN r.stars
    ELSE IF r.slash /\ r.num >= 0 THEN r.num
    ELSE IF a = "software-advice" /\ r.cls >= 0 THEN r.cls
    ELSE 0

\* C21: in every adapter the rating of a record is the number of filled-star
\* sub-elements when the rating element has any; otherwise the numerator of
\* a textual fraction; otherwise, for Software Advice only, the N of a
\* "stars-N" class; and 0 when none can be parsed or there is no rating
\* element.
C21_RatingCascade ==
    (pc = "parsed" /\ parsed # <<>>) =>
        parsed[1].rating = RatingOf(p_adapter, p_frag.rating)

(***************************************************************************)
(* C22: the demo reviews.  Checked under SpecMain on the runs started with *)
(* the demo flag.                                                          *)
(***************************************************************************)
\* the label a selector stands for
LabelOf(selector) ==
    CASE selector = "g2" -> "G2"
      [] selector = "capterra" -> "Capterra"
      [] selector = "software-advice" -> "Software Advice"

\* the positions of the sample reviews the run asks for
Wanted ==
    {i \in DOMAIN demo_reviews(company_name) :
        LET r == demo_reviews(company_name)[i]
        IN  /\ source = "all" \/ r.source = LabelOf(source)
            /\ DateLE(StartDay, parse_date(r.date))
            /\ DateLE(parse_date(r.date), EndDay)}

\* the k-th of the wanted positions, in the order of the sample list
WantedAt(k) ==
    CHOOSE i \in Wanted : Cardinality({j \in Wanted : j < i}) = k - 1

\* the keys every demo review must hold
DemoKeys == {"title", "description", "date", "rating", "source"}

\* C22: generate_demo_reviews returns, in their fixed order, exactly the
\* demo reviews whose source label matches the selector and whose date lies
\* in [startDate, endDate]; every returned review has title, description,
\* date, rating and source; demo mode invokes no adapter and issues no HTTP
\* request.
C22_DemoReviews ==
    demo =>
        /\ status = "none" /\ ran = <<>>
        /\ resp = NoResp /\ n_search = 0 /\ n_page = 0
        /\ pc \in {"main", "done", "exit"}
        /\ (pc \in {"done", "exit"} /\ verdict = "ok") =>
              /\ Len(agg_reviews) = Cardinality(Wanted)
              /\ \A k \in DOMAIN agg_reviews :
                    /\ agg_reviews[k] = demo_reviews(company_name)[WantedAt(k)]
                    /\ DemoKeys \subseteq DOMAIN agg_reviews[k]

\* the two G2 sample reviews were returned in the order of the list, the
\* second of them dated on startDate
C22_Witness ==
    /\ demo
    /\ pc = "done"
    /\ source = "g2"
    /\ start_date = Iso(2023, 7, 20)
    /\ Len(agg_reviews) = 2
    /\ agg_reviews[1].date = Iso(2023, 8, 15)
    /\ agg_reviews[2].date = Iso(2023, 7, 20)
    /\ agg_reviews[2].source = "G2"

Request == SearchRequest(n_search + 1) \/ PageRequest

\* a request was issued earlier in the run: by the running adapter, or by an
\* adapter that ran before it (G2 and Software Advice issue at least their
\* first search request; Capterra issues none)
RequestedBefore ==
    \/ n_search + n_page > 0
    \/ \E i \in DOMAIN ran : ran[i].src # "capterra"

\* C24: over a whole multi-source run any two consecutive HTTP requests are
\* separated by a wait of at least DELAY_BETWEEN_REQUESTS, the successful
\* search request followed by the request for page 1 and the last request
\* of one adapter followed by the first of the next included.
C24_DelayBetweenAllRequests ==
    [][Request /\ RequestedBefore => wait >= DELAY_BETWEEN_REQUESTS]_vars

(***************************************************************************)
(* C25: the review elements of a page.  Checked under SpecPage.            *)
(***************************************************************************)
\* the positions in the adapter's cascade of the shapes the page has
\* elements of
Hits(a, shapes) ==
    {i \in DOMAIN ContainerCascade(a) : shapes[ContainerCascade(a)[i]] # <<>>}

\* C25: on each page the review fragments processed are those of the first
\* candidate shape, in the adapter's fixed order, that yields at least one
\* match; fragments of later shapes on the page are not processed, and
\* matches of different shapes are never combined.
C25_FirstShapeWins ==
    pc = "handled" =>
        LET hits == Hits(p_adapter, resp.shapes)
        IN  IF hits = {}
            THEN all_reviews = <<>> /\ status = "returned"
            ELSE LET first == CHOOSE i \in hits : \A j \in hits : i <= j
                     won == resp.shapes[ContainerCascade(p_adapter)[first]]
                 IN  /\ all_reviews = KeptOf(p_adapter, won)
                     /\ status = "returned" <=> StopIndex(Kinds(p_adapter, won)) # 0

\* Software Advice found nothing under its first shape and kept the review
\* of the second shape only, though the third and fourth had elements
C25_Witness ==
    /\ pc = "handled"
    /\ p_adapter = "software-advice"
    /\ resp.shapes["div.ReviewCard"] = <<>>
    /\ resp.shapes["div.review-card"] = <<ElementOf("div.review-card")>>
    /\ resp.shapes["article.review"] # <<>>
    /\ resp.shapes["div.user-review"] # <<>>
    /\ all_reviews = <<Plain("Software Advice", Iso(2023, 10, 13))>>

(***************************************************************************)
(* C26: what get_reviews accumulates.                                      *)
(***************************************************************************)
\* s is what a selection of the fragments gives, in their order: each entry
\* of s is the record of a fragment of its own, later entries of later
\* fragments
RecordsAmong(a, s, frags) ==
    \E at \in [DOMAIN s -> DOMAIN frags] :
        /\ \A k \in DOMAIN s : \A l \in DOMAIN s : k < l => at[k] < at[l]
        /\ \A k \in DOMAIN s :
              parse_review(a, frags[at[k]], now) = <<s[k]>>

\* C26: the list get_reviews returns is a subsequence of the listing in the
\* order encountered: the accumulated result only grows by appending, what
\* was appended is never removed, reordered or modified, and no review is
\* there more often than its fragment was encountered.
C26_AppendOnly ==
    [][pc = "pages" =>
         /\ Len(all_reviews') >= Len(all_reviews)
         /\ SubSeq(all_reviews', 1, Len(all_reviews)) = all_reviews
         /\ LET added == SubSeq(all_reviews', Len(all_reviews) + 1, Len(all_reviews'))
            IN  IF resp'.kind = "page"
                THEN RecordsAmong(src, added, resp'.frags)
                ELSE added = <<>>
         /\ pc' # "pages" => ReturnsNow(all_reviews')
      ]_vars

\* G2 returned the review of page 1 and, after it, the review of page 2
C26_Witness ==
    /\ status = "returned"
    /\ Last(ran).src = "g2"
    /\ n_page = 2
    /\ resp.kind = "page"
    /\ Last(ran).reviews = <<Plain("G2", Iso(2023, 11, 1)), Plain("G2", Iso(2023, 10, 15))>>

(***************************************************************************)
(* C27: termination.  Checked under SpecFair.                              *)
(***************************************************************************)
\* the adapter the last page was served to: the running one, or the one
\* that has just returned
Served == IF pc = "pages" THEN src ELSE Last(ran).src

\* the last response is a page that has no fragment, or lacks an enabled
\* next-page indicator, or holds a review older than startDate, or it is a
\* page that failed to load
EndingPageServed ==
    \/ resp.kind = "page_fail"
    \/ /\ resp.kind = "page"
       /\ \/ resp.frags = <<>>
          \/ ~NextShown(Served, resp.nav)
          \/ \E i \in DOMAIN resp.frags : KindOf(Served, resp.frags[i]) = "old"

\* C27: get_reviews of every adapter eventually returns whenever the source
\* eventually serves a page that has no fragments, or lacks an enabled
\* next-page indicator, or holds a review older than startDate, or fails to
\* load; search_company always returns after at most MAX_RETRIES attempts.
\* (The sites of the model serve no review past page MaxPages, so each of
\* them eventually serves such a page.)
C27_Terminates ==
    /\ [](EndingPageServed => pc # "pages" /\ status = "returned")
    /\ (pc = "pages") ~> (status = "returned")
    /\ [](n_search <= MAX_RETRIES /\ status # "raised")
    /\ (pc = "search") ~> (pc = "found" \/ status = "returned")

(***************************************************************************)
(* C28: the number of reviews of one get_reviews call.  Checked under      *)
(* SpecVolume.                                                             *)
(***************************************************************************)
\* C28: no adapter returns more than MAX_REVIEWS_PER_SOURCE reviews from one
\* get_reviews call, whatever number of pages and in-window reviews the
\* source serves.
C28_ReviewCap ==
    \A i \in DOMAIN ran : Len(ran[i].reviews) <= MAX_REVIEWS_PER_SOURCE
=============================================================================
